---- MODULE Spec2Model ----
(***************************************************************************)
(* Model of backend/app/main.py: the car-data WebSocket relay.             *)
(*                                                                         *)
(* One asyncio task runs per open connection.  Tasks interleave only at    *)
(* `await` points, so every action below is the code a handler runs from   *)
(* the completion of one await to the start of the next one.               *)
(***************************************************************************)
EXTENDS Integers, Sequences, FiniteSets, TLC

\* Connection handles (WebSocket objects) of the two endpoints.
Producers == {"p1", "p2"}
Consumers == {"c1", "c2"}

\* Bounds of the model.
MaxMsgs == 2      \* messages received from all producers together
MaxOdd == 1       \* messages other than the nominal one
MaxFaults == 1    \* I/O calls (send, receive) that the environment makes raise
TickMs == 250     \* milliseconds between two readings of the server clock

VARIABLES
    latest_car_data_store,   \* main.py:61   the global snapshot, None or a CarData
    car_connections,         \* car_connection_manager.active_connections
    ui_connections,          \* ui_connection_manager.active_connections
    car_pc,                  \* where each producer handler is suspended
    ui_pc,                   \* where each consumer handler is suspended
    data_json,               \* main.py:110  the handler's last received message
    car_data_received,       \* main.py:112  the handler's validated, stamped record
    bc_copy,                 \* main.py:86   list(self.active_connections) of the pass
    bc_idx,                  \* main.py:86   position of the pass in the iterated list
    bc_conn,                 \* main.py:86   `connection`, the handle being sent to
    disconnected_clients,    \* main.py:84   handles marked by the pass
    ui_initial,              \* main.py:154  the dump being sent as initial push
    odd,                     \* messages other than the nominal one so far
    faults,                  \* I/O calls that raised an error so far
    \* history variables (not program state)
    received,                \* number of messages each producer handler received
    accepted,                \* records installed in the store, in store order
    delivered,               \* what each consumer client received, in order
    acks,                    \* what each producer client received, in order
    bc_log,                  \* outcome of every send of the current/last pass
    bc_raised,               \* a send error escaped broadcast_json_object
    send_failed,             \* some send to the consumer raised
    joined_at,               \* Len(accepted) when the consumer was registered
    removed_by,              \* who took the consumer out of the registry
    cleanups,                \* times the producer handler's finally ran disconnect
    exit_via                 \* how the producer handler left its loop

vars == << latest_car_data_store, car_connections, ui_connections, car_pc, ui_pc,
           data_json, car_data_received, bc_copy, bc_idx, bc_conn,
           disconnected_clients, ui_initial, odd, faults, received, accepted, delivered,
           acks, bc_log, bc_raised, send_failed, joined_at, removed_by, cleanups,
           exit_via >>

-----------------------------------------------------------------------------
(* Values *)

None == [none |-> TRUE]

Range(s) == { s[i] : i \in 1..Len(s) }

\* A timestamp string: either the ISO-8601 text of an instant (in ms), or text
\* that does not parse as an instant.
IsoString(ms) == [iso |-> TRUE, ms |-> ms]
Garbage == [iso |-> FALSE, ms |-> 0]


\* The timestamp_car_sent_utc entry of an incoming JSON object.
TsOmitted == [present |-> FALSE, isstr |-> FALSE, str |-> Garbage]
TsString(s) == [present |-> TRUE, isstr |-> TRUE, str |-> s]
TsNonString == [present |-> TRUE, isstr |-> FALSE, str |-> Garbage]

\* The shapes of JSON object a producer client may send.
MsgShapes ==
    { [vehicle_controls |-> TRUE,  timestamp_car_sent_utc |-> TsString(IsoString(0))],
      [vehicle_controls |-> FALSE, timestamp_car_sent_utc |-> TsString(IsoString(0))],
      [vehicle_controls |-> TRUE,  timestamp_car_sent_utc |-> TsOmitted],
      [vehicle_controls |-> TRUE,  timestamp_car_sent_utc |-> TsString(Garbage)],
      [vehicle_controls |-> TRUE,  timestamp_car_sent_utc |-> TsNonString] }

NominalShape ==
    [vehicle_controls |-> TRUE, timestamp_car_sent_utc |-> TsString(IsoString(0))]

NoMsg == [none |-> TRUE]

\* Outcomes of an awaited send_json: it returns, or raises.
SendErrors == {"WebSocketDisconnect", "RuntimeError", "Exception"}
SendOutcomes == {"ok"} \cup SendErrors

\* k more I/O calls raise, within the budget.
Cost(o) == IF o = "ok" THEN 0 ELSE 1
Inject(k) == faults + k <= MaxFaults /\ faults' = faults + k

RECURSIVE SumReceived(_)
SumReceived(S) ==
    IF S = {} THEN 0
    ELSE LET p == CHOOSE x \in S : TRUE IN received[p] + SumReceived(S \ {p})

\* datetime.datetime.utcnow().isoformat() + "Z".  The server reads its clock
\* once per received message; successive readings are TickMs apart.
utcnow_isoformat == IsoString((SumReceived(Producers) + 1) * TickMs)

-----------------------------------------------------------------------------
(* CarData: validation and construction (main.py:30-41, 112-113) *)

\* Faulty variant of Validate: vehicle_controls declared Optional, so never required.
Validate_controls_optional(d) ==
    d.timestamp_car_sent_utc.present => d.timestamp_car_sent_utc.isstr

\* Faulty variant of Validate: timestamp_car_sent_utc is declared a datetime, so a
\* string that is not an instant is refused.
Validate_ts_parsed(d) ==
    /\ d.vehicle_controls
    /\ d.timestamp_car_sent_utc.present =>
           (d.timestamp_car_sent_utc.isstr /\ d.timestamp_car_sent_utc.str.iso)

\* CarData(**data_json) raises unless the required fields are present and
\* timestamp_car_sent_utc, when given, is a string.
Validate(d) ==
    /\ d.vehicle_controls
    /\ d.timestamp_car_sent_utc.present => d.timestamp_car_sent_utc.isstr

\* The CarData instance after line 113.  `producer` and `seq` identify the
\* message the record was built from.
CarData(d) ==
    [ producer |-> d.producer,
      seq |-> d.seq,
      timestamp_car_sent_utc |->
          IF d.timestamp_car_sent_utc.present
          THEN d.timestamp_car_sent_utc.str
          ELSE utcnow_isoformat,
      timestamp_server_received_utc |-> utcnow_isoformat ]

\* Faulty variant of StoreAfter: the store keeps the record with the higher sequence
\* number instead of the one that arrived last.
StoreAfter_if_newer(store, rec) ==
    IF store # None /\ rec.seq <= store.seq THEN store ELSE rec

\* main.py:115  latest_car_data_store = car_data_received
StoreAfter(store, rec) == rec

\* Faulty variant of HasSnapshot: the test is inverted, `if not latest_car_data_store:`.
HasSnapshot_inverted(store) == store = None

\* Faulty variant of HasSnapshot: the check of the store is left out.
HasSnapshot_unchecked(store) == TRUE

\* main.py:120, 152  `if latest_car_data_store:`
HasSnapshot(store) == store # None

-----------------------------------------------------------------------------
(* ConnectionManager (main.py:64-97) *)

\* Faulty variant of list_remove: nothing is removed.
list_remove_nothing(l, x) == l

\* list.remove(x): removes the first occurrence.
list_remove(l, x) ==
    LET i == CHOOSE k \in 1..Len(l) : l[k] = x /\ \A j \in 1..(k-1) : l[j] # x
    IN SubSeq(l, 1, i-1) \o SubSeq(l, i+1, Len(l))

\* Faulty variant of disconnect: no membership check, so list.remove raises ValueError
\* for an absent handle.
disconnect_unguarded(conns, websocket) ==
    IF websocket \in Range(conns)
    THEN [conns |-> list_remove(conns, websocket), raised |-> FALSE]
    ELSE [conns |-> conns, raised |-> TRUE]

\* ConnectionManager.disconnect: the new list, and whether the call raised.
disconnect(conns, websocket) ==
    IF websocket \in Range(conns)
    THEN [conns |-> list_remove(conns, websocket), raised |-> FALSE]
    ELSE [conns |-> conns, raised |-> FALSE]

\* Faulty variant of IterList: the pass iterates the live list.
IterList_live(copy, live) == live

\* main.py:86  the list the pass iterates: the copy, not the live list.
IterList(copy, live) == copy

\* Faulty variant of broadcast_except: only the first except clause is there.
broadcast_except_narrow(err) ==
    IF err \in {"WebSocketDisconnect", "RuntimeError"} THEN "mark" ELSE "raise"

\* main.py:89-93  what the pass does with an error raised by send_json.
broadcast_except(err) ==
    IF err \in {"WebSocketDisconnect", "RuntimeError"} THEN "mark" ELSE "log"

\* main.py:95-97  the removal loop after the pass.
RECURSIVE remove_disconnected(_, _)
remove_disconnected(conns, clients) ==
    IF clients = <<>> THEN conns
    ELSE remove_disconnected(
             IF Head(clients) \in Range(conns)
             THEN disconnect(conns, Head(clients)).conns
             ELSE conns,
             Tail(clients))

\* Faulty variant of FinallyRuns: disconnect is called in the WebSocketDisconnect
\* clause instead of a finally clause.
FinallyRuns_on_disconnect_only(via) == via = "WebSocketDisconnect"

\* main.py:142-143  whether the handler's exit path runs the cleanup.
FinallyRuns(via) == TRUE

-----------------------------------------------------------------------------
Init ==
    /\ latest_car_data_store = None
    /\ car_connections = <<>>
    /\ ui_connections = <<>>
    /\ car_pc = [p \in Producers |-> "idle"]
    /\ ui_pc = [c \in Consumers |-> "idle"]
    /\ data_json = [p \in Producers |-> NoMsg]
    /\ car_data_received = [p \in Producers |-> None]
    /\ bc_copy = [p \in Producers |-> <<>>]
    /\ bc_idx = [p \in Producers |-> 0]
    /\ bc_conn = [p \in Producers |-> "none"]
    /\ disconnected_clients = [p \in Producers |-> <<>>]
    /\ ui_initial = [c \in Consumers |-> None]
    /\ odd = 0
    /\ faults = 0
    /\ received = [p \in Producers |-> 0]
    /\ accepted = <<>>
    /\ delivered = [c \in Consumers |-> <<>>]
    /\ acks = [p \in Producers |-> <<>>]
    /\ bc_log = [p \in Producers |-> <<>>]
    /\ bc_raised = [p \in Producers |-> FALSE]
    /\ send_failed = [c \in Consumers |-> FALSE]
    /\ joined_at = [c \in Consumers |-> -1]
    /\ removed_by = [c \in Consumers |-> "none"]
    /\ cleanups = [p \in Producers |-> 0]
    /\ exit_via = [p \in Producers |-> "none"]

\* The variables of one broadcast pass, and those a producer handler owns.
pass_vars == << bc_copy, bc_idx, bc_conn, disconnected_clients, bc_log, bc_raised >>
shared_vars == << latest_car_data_store, accepted >>
ui_vars == << ui_connections, ui_pc, ui_initial, delivered, send_failed,
              joined_at, removed_by >>

-----------------------------------------------------------------------------
(* websocket_car_data_endpoint (main.py:104-143) *)

\* The locals of a pass are dropped.
pass_reset(p) ==
    /\ bc_copy' = [bc_copy EXCEPT ![p] = <<>>]
    /\ bc_idx' = [bc_idx EXCEPT ![p] = 0]
    /\ bc_conn' = [bc_conn EXCEPT ![p] = "none"]
    /\ disconnected_clients' = [disconnected_clients EXCEPT ![p] = <<>>]
    /\ bc_log' = [bc_log EXCEPT ![p] = <<>>]
    /\ bc_raised' = [bc_raised EXCEPT ![p] = FALSE]

\* The handler leaves its try block: the finally clause (142-143) runs and the
\* handler ends; its locals are dropped.
car_exit(p, via) ==
    /\ car_connections' =
           IF FinallyRuns(via) THEN disconnect(car_connections, p).conns
           ELSE car_connections
    /\ cleanups' = [cleanups EXCEPT ![p] = IF FinallyRuns(via) THEN @ + 1 ELSE @]
    /\ car_pc' = [car_pc EXCEPT ![p] = "done"]
    /\ exit_via' = [exit_via EXCEPT ![p] = via]
    /\ data_json' = [data_json EXCEPT ![p] = NoMsg]
    /\ car_data_received' = [car_data_received EXCEPT ![p] = None]
    /\ acks' = [acks EXCEPT ![p] = <<>>]
    /\ pass_reset(p)

\* 106: car_connection_manager.connect: accept() returns and the handle is
\* appended.  (When accept() raises, the handler ends before its try block and
\* nothing has changed: the handle is as one that never connects.)
car_connect(p) ==
    /\ car_pc[p] = "idle"
    /\ car_connections' = Append(car_connections, p)
    /\ car_pc' = [car_pc EXCEPT ![p] = "await"]
    /\ UNCHANGED << shared_vars, ui_vars, pass_vars, data_json, car_data_received,
                    received, acks, cleanups, exit_via, odd, faults >>

\* 110-126: receive_json returns a JSON object.  Validation, the stamp, the
\* store and the start of the broadcast pass run without suspension, up to the
\* first awaited send (of the pass, of the acknowledgment or of the error).
car_receive_json(p) ==
    /\ car_pc[p] = "await"
    /\ SumReceived(Producers) < MaxMsgs
    /\ \E shape \in MsgShapes :
        LET d == [ producer |-> p, seq |-> received[p] + 1,
                   vehicle_controls |-> shape.vehicle_controls,
                   timestamp_car_sent_utc |-> shape.timestamp_car_sent_utc ]
            rec == CarData(d)
            store == StoreAfter(latest_car_data_store, rec)
            lst == IterList(ui_connections, ui_connections)
        IN
        /\ shape # NominalShape => odd < MaxOdd
        /\ odd' = IF shape # NominalShape THEN odd + 1 ELSE odd
        /\ data_json' = [data_json EXCEPT ![p] = d]
        /\ received' = [received EXCEPT ![p] = @ + 1]
        /\ IF ~Validate(d)
           THEN \* 131-133: the error acknowledgment is awaited
                /\ car_pc' = [car_pc EXCEPT ![p] = "ack_err"]
                /\ UNCHANGED << shared_vars, car_data_received, pass_vars >>
           ELSE /\ car_data_received' = [car_data_received EXCEPT ![p] = rec]
                /\ latest_car_data_store' = store
                /\ accepted' = Append(accepted, rec)
                /\ UNCHANGED << disconnected_clients, bc_log, bc_raised >>
                /\ IF HasSnapshot(store) /\ ui_connections # <<>>
                   THEN \* 84-88: the first send of the pass is awaited
                        /\ bc_copy' = [bc_copy EXCEPT ![p] = ui_connections]
                        /\ bc_idx' = [bc_idx EXCEPT ![p] = 1]
                        /\ bc_conn' = [bc_conn EXCEPT ![p] = lst[1]]
                        /\ car_pc' = [car_pc EXCEPT ![p] = "broadcast"]
                   ELSE \* 80-82: nobody to send to; 126: the ack is awaited
                        /\ car_pc' = [car_pc EXCEPT ![p] = "ack"]
                        /\ UNCHANGED << bc_copy, bc_idx, bc_conn >>
    /\ UNCHANGED << car_connections, ui_vars, acks, cleanups, exit_via, faults >>

\* 110, 135-136, 142-143: receive_json raises WebSocketDisconnect.
car_receive_disconnect(p) ==
    /\ car_pc[p] = "await"
    /\ car_exit(p, "WebSocketDisconnect")
    /\ UNCHANGED << shared_vars, ui_vars, received, odd, faults >>

\* 110, 137-140: receive_json raises another error (text that is not JSON);
\* the outer handler awaits close(1011).
car_receive_error(p) ==
    /\ car_pc[p] = "await"
    /\ Inject(1)
    /\ car_pc' = [car_pc EXCEPT ![p] = "closing"]
    /\ exit_via' = [exit_via EXCEPT ![p] = "receive_error"]
    /\ UNCHANGED << shared_vars, ui_vars, pass_vars, car_connections, data_json,
                    car_data_received, received, acks, cleanups, odd >>

\* 86-97, 122-126: the awaited send_json of the pass completes for
\* `connection`; the loop moves on, or the pass ends, removes the marked
\* handles and the handler awaits the send of its acknowledgment.  A send to a
\* consumer whose handler has ended always raises: the server has closed that
\* socket.
car_broadcast_send(p) ==
    /\ car_pc[p] = "broadcast"
    /\ \E o \in SendOutcomes :
        LET conn == bc_conn[p]
            rec == car_data_received[p]
            how == IF o = "ok" THEN "ok" ELSE broadcast_except(o)
            marks == IF how = "mark"
                     THEN Append(disconnected_clients[p], conn)
                     ELSE disconnected_clients[p]
            lst == IterList(bc_copy[p], ui_connections)
            nxt == bc_idx[p] + 1
            after == remove_disconnected(ui_connections, marks)
        IN
        /\ ui_pc[conn] = "done" => o # "ok"
        /\ Inject(IF ui_pc[conn] = "done" THEN 0 ELSE Cost(o))
        /\ bc_log' = [bc_log EXCEPT ![p] = Append(@, [conn |-> conn, outcome |-> o])]
        /\ delivered' = IF o = "ok"
                        THEN [delivered EXCEPT ![conn] =
                                  Append(@, [rec |-> rec, via |-> "broadcast"])]
                        ELSE delivered
        /\ send_failed' = IF o = "ok" \/ ui_pc[conn] = "done" THEN send_failed
                          ELSE [send_failed EXCEPT ![conn] = TRUE]
        /\ disconnected_clients' = [disconnected_clients EXCEPT ![p] = marks]
        /\ IF how = "raise"
           THEN \* the error leaves broadcast_json_object; 131-133 catch it
                /\ bc_raised' = [bc_raised EXCEPT ![p] = TRUE]
                /\ car_pc' = [car_pc EXCEPT ![p] = "ack_err"]
                /\ UNCHANGED << ui_connections, removed_by, bc_idx, bc_conn >>
           ELSE IF nxt <= Len(lst)
           THEN /\ bc_idx' = [bc_idx EXCEPT ![p] = nxt]
                /\ bc_conn' = [bc_conn EXCEPT ![p] = lst[nxt]]
                /\ UNCHANGED << ui_connections, removed_by, car_pc, bc_raised >>
           ELSE /\ ui_connections' = after
                /\ removed_by' =
                       [c \in Consumers |->
                           IF c \in Range(ui_connections) /\ c \notin Range(after)
                           THEN p ELSE removed_by[c]]
                /\ bc_idx' = [bc_idx EXCEPT ![p] = nxt]
                /\ bc_conn' = [bc_conn EXCEPT ![p] = "none"]
                /\ car_pc' = [car_pc EXCEPT ![p] = "ack"]
                /\ UNCHANGED bc_raised
    /\ UNCHANGED << shared_vars, car_connections, ui_pc, ui_initial, joined_at,
                    data_json, car_data_received, bc_copy, received, acks,
                    cleanups, exit_via, odd >>

\* 126-129: the awaited send of {"status": "received"} completes.  An error
\* is caught by the inner handler (131), which awaits the error send (133).
car_ack(p) ==
    /\ car_pc[p] = "ack"
    /\ \E o \in SendOutcomes :
        /\ Inject(Cost(o))
        /\ IF o = "ok"
           THEN /\ acks' = [acks EXCEPT ![p] =
                       Append(@, [status |-> "received",
                                  message_processed_at |->
                                      car_data_received[p].timestamp_server_received_utc])]
                /\ car_pc' = [car_pc EXCEPT ![p] = "await"]
           ELSE /\ acks' = acks
                /\ car_pc' = [car_pc EXCEPT ![p] = "ack_err"]
    /\ pass_reset(p)
    /\ UNCHANGED << shared_vars, ui_vars, car_connections, data_json,
                    car_data_received, received, cleanups, exit_via, odd >>

\* 133: the awaited send of {"status": "error"} completes.  It returns and the
\* loop goes on, or it raises out of the inner handler: WebSocketDisconnect
\* goes to 135-136 and the finally clause, anything else to 137-140.
car_error_ack(p) ==
    /\ car_pc[p] = "ack_err"
    /\ \E o \in SendOutcomes :
        /\ Inject(Cost(o))
        /\ CASE o = "ok" ->
                   /\ acks' = [acks EXCEPT ![p] = Append(@, [status |-> "error"])]
                   /\ car_pc' = [car_pc EXCEPT ![p] = "await"]
                   /\ pass_reset(p)
                   /\ UNCHANGED << car_connections, cleanups, exit_via, data_json,
                                   car_data_received >>
             [] o = "WebSocketDisconnect" ->
                   car_exit(p, "ack_disconnect")
             [] OTHER ->
                   /\ car_pc' = [car_pc EXCEPT ![p] = "closing"]
                   /\ exit_via' = [exit_via EXCEPT ![p] = "ack_error"]
                   /\ pass_reset(p)
                   /\ UNCHANGED << car_connections, cleanups, acks, data_json,
                                   car_data_received >>
    /\ UNCHANGED << shared_vars, ui_vars, received, odd >>

\* 139-143: the awaited close(1011) returns or raises (RuntimeError is passed
\* over, anything else leaves the handler); the finally clause runs either way.
car_close(p) ==
    /\ car_pc[p] = "closing"
    /\ car_exit(p, exit_via[p])
    /\ UNCHANGED << shared_vars, ui_vars, received, odd, faults >>

-----------------------------------------------------------------------------
(* websocket_ui_endpoint (main.py:146-172) *)

\* 149-154: ui_connection_manager.connect, then the check of the store: the
\* append and the read of the store run without suspension in between.
ui_connect(c) ==
    /\ ui_pc[c] = "idle"
    /\ ui_connections' = Append(ui_connections, c)
    /\ joined_at' = [joined_at EXCEPT ![c] = Len(accepted)]
    /\ IF HasSnapshot(latest_car_data_store)
       THEN /\ ui_initial' = [ui_initial EXCEPT ![c] = latest_car_data_store]
            /\ ui_pc' = [ui_pc EXCEPT ![c] = "initpush"]
       ELSE /\ ui_initial' = ui_initial
            /\ ui_pc' = [ui_pc EXCEPT ![c] = "reading"]
    /\ UNCHANGED << shared_vars, pass_vars, car_connections, car_pc, data_json,
                    car_data_received, received, acks, cleanups, exit_via,
                    delivered, send_failed, removed_by, odd, faults >>

\* Faulty variant of initial_push_except: the initial send is not inside a try of
\* its own, so its error reaches the handler's outer clauses.
initial_push_except_outer(err) == "raise"

\* main.py:155-156  what the handler does with an error raised by the initial
\* send_json: `except Exception` catches every error and logs it.
initial_push_except(err) == "log"

\* 154-163: the awaited initial send completes; an error is only logged, and
\* the handler goes on to its receive loop.
ui_initial_push(c) ==
    /\ ui_pc[c] = "initpush"
    /\ \E o \in SendOutcomes :
        /\ Inject(Cost(o))
        /\ IF o # "ok" /\ initial_push_except(o) = "raise"
           THEN \* 165-172: the outer clauses and the finally clause
                /\ ui_connections' = disconnect(ui_connections, c).conns
                /\ removed_by' = IF c \in Range(ui_connections)
                                 THEN [removed_by EXCEPT ![c] = "handler"]
                                 ELSE removed_by
                /\ ui_pc' = [ui_pc EXCEPT ![c] = "done"]
                /\ delivered' = [delivered EXCEPT ![c] = <<>>]
                /\ send_failed' = [send_failed EXCEPT ![c] = FALSE]
                /\ joined_at' = [joined_at EXCEPT ![c] = -1]
           ELSE /\ delivered' =
                       IF o = "ok"
                       THEN [delivered EXCEPT ![c] =
                                Append(@, [rec |-> ui_initial[c], via |-> "initial"])]
                       ELSE delivered
                /\ send_failed' = IF o = "ok" THEN send_failed
                                  ELSE [send_failed EXCEPT ![c] = TRUE]
                /\ ui_pc' = [ui_pc EXCEPT ![c] = "reading"]
                /\ UNCHANGED << ui_connections, joined_at, removed_by >>
    /\ ui_initial' = [ui_initial EXCEPT ![c] = None]
    /\ UNCHANGED << shared_vars, pass_vars, car_connections, car_pc, data_json,
                    car_data_received, received, acks, cleanups, exit_via, odd >>

\* 163-172: receive_text raises (WebSocketDisconnect or another error); the
\* finally clause removes the handle and the handler ends.  Text that arrives
\* is ignored and the handler awaits again: that step changes nothing.
ui_receive_raises(c) ==
    /\ ui_pc[c] = "reading"
    /\ ui_connections' = disconnect(ui_connections, c).conns
    /\ removed_by' = IF c \in Range(ui_connections)
                     THEN [removed_by EXCEPT ![c] = "handler"]
                     ELSE removed_by
    /\ ui_pc' = [ui_pc EXCEPT ![c] = "done"]
    /\ delivered' = [delivered EXCEPT ![c] = <<>>]
    /\ send_failed' = [send_failed EXCEPT ![c] = FALSE]
    /\ joined_at' = [joined_at EXCEPT ![c] = -1]
    /\ UNCHANGED << shared_vars, pass_vars, car_connections, car_pc, data_json,
                    car_data_received, received, acks, cleanups, exit_via,
                    ui_initial, odd, faults >>

-----------------------------------------------------------------------------
Next ==
    \/ \E p \in Producers : car_connect(p)
    \/ \E p \in Producers : car_receive_json(p)
    \/ \E p \in Producers : car_receive_disconnect(p)
    \/ \E p \in Producers : car_receive_error(p)
    \/ \E p \in Producers : car_broadcast_send(p)
    \/ \E p \in Producers : car_ack(p)
    \/ \E p \in Producers : car_error_ack(p)
    \/ \E p \in Producers : car_close(p)
    \/ \E c \in Consumers : ui_connect(c)
    \/ \E c \in Consumers : ui_initial_push(c)
    \/ \E c \in Consumers : ui_receive_raises(c)

Spec == Init /\ [][Next]_vars

\* The consumer whose client has stopped reading without closing: a send_json
\* to it is awaited without a timeout (main.py:88) and need not ever complete.
Unresponsive == "c1"

\* An awaited send to any other peer completes; so every handler that awaits
\* a send or a close is resumed.  Nothing makes a client connect, send a
\* message or close.
Fairness ==
    /\ \A p \in Producers :
          /\ WF_vars(car_broadcast_send(p) /\ bc_conn[p] # Unresponsive)
          /\ WF_vars(car_ack(p))
          /\ WF_vars(car_error_ack(p))
          /\ WF_vars(car_close(p))
    /\ \A c \in Consumers : WF_vars(ui_initial_push(c))

FairSpec == Init /\ [][Next]_vars /\ Fairness

-----------------------------------------------------------------------------
(* Properties *)

Last(q) == q[Len(q)]

\* The consumer handler is between its connect and its end.
Attached(c) == ui_pc[c] \in {"initpush", "reading"}

\* The record the pass of p carries was delivered to consumer c.
GotFromPass(c, p) ==
    \E k \in 1..Len(delivered[c]) :
        delivered[c][k] = [rec |-> car_data_received[p], via |-> "broadcast"]

\* C1  Broadcast isolation.  A pass sends to the handles of the registry as it
\* was when the pass began, in order and once each, whatever the outcome of
\* the earlier sends; when the pass has returned every one of them has been
\* attempted, every handle whose send returned has the record (while its
\* handler lives), and no send error has left broadcast_json_object.
C1_BroadcastIsolation ==
    \A p \in Producers :
        /\ ~bc_raised[p]
        /\ Len(bc_log[p]) <= Len(bc_copy[p])
        /\ \A j \in 1..Len(bc_log[p]) :
              /\ bc_log[p][j].conn = bc_copy[p][j]
              /\ (bc_log[p][j].outcome = "ok" /\ Attached(bc_copy[p][j]))
                     => GotFromPass(bc_copy[p][j], p)
        /\ car_pc[p] = "broadcast" =>
              /\ Len(bc_log[p]) = bc_idx[p] - 1
              /\ bc_idx[p] <= Len(bc_copy[p])
              /\ bc_conn[p] = bc_copy[p][bc_idx[p]]
        /\ car_pc[p] # "broadcast" => Len(bc_log[p]) = Len(bc_copy[p])

\* A pass over two consumers has returned: the first send raised, the second
\* consumer has the record.
C1_Witness ==
    \E p \in Producers :
        /\ car_pc[p] = "ack"
        /\ Len(bc_log[p]) = 2
        /\ bc_log[p][1].outcome \in SendErrors
        /\ bc_log[p][2].outcome = "ok"
        /\ GotFromPass(bc_copy[p][2], p)

\* Another party called disconnect for the consumer: its own handler, or the
\* pass of another producer.
DisconnectedByOther(c, p) ==
    ui_pc[c] = "done" \/ removed_by[c] \notin {"none", p}

\* C2  (the claim as stated)  After a pass has returned, every handle whose
\* send raised, whatever the error, is out of the consumer registry, and
\* every handle whose send returned and that nobody else disconnected is in it.
C2_FailedHandlesRemoved ==
    \A p \in Producers :
        car_pc[p] = "ack" =>
            \A j \in 1..Len(bc_log[p]) :
                LET e == bc_log[p][j] IN
                /\ e.outcome # "ok" => e.conn \notin Range(ui_connections)
                /\ (e.outcome = "ok" /\ ~DisconnectedByOther(e.conn, p))
                       => e.conn \in Range(ui_connections)

\* The message the handler of p last received lacks vehicle_controls.
LacksControls(p) == data_json[p] # NoMsg /\ ~data_json[p].vehicle_controls

\* A record built from the message the handler of p last received.
FromCurrentMessage(p, rec) ==
    rec # None /\ rec.producer = p /\ rec.seq = data_json[p].seq

\* C3  A message without vehicle_controls is answered by an error
\* acknowledgment and nothing else: no record built from it is in the store
\* or was sent to a consumer, and no pass runs for it; while the error
\* acknowledgment is sent, and after it was sent, the connection is in the
\* producer registry, and the handler is back at its receive with the error
\* acknowledgment as the last one the producer got.
C3_InvalidMessage ==
    \A p \in Producers :
        LacksControls(p) =>
            /\ car_pc[p] \in {"ack_err", "await", "closing"}
            /\ ~FromCurrentMessage(p, latest_car_data_store)
            /\ \A k \in 1..Len(accepted) : ~FromCurrentMessage(p, accepted[k])
            /\ \A c \in Consumers : \A k \in 1..Len(delivered[c]) :
                   ~FromCurrentMessage(p, delivered[c][k].rec)
            /\ bc_copy[p] = <<>> /\ bc_log[p] = <<>>
            /\ car_pc[p] \in {"ack_err", "await"} => p \in Range(car_connections)
            /\ car_pc[p] = "await" =>
                   /\ Len(acks[p]) = received[p]
                   /\ Last(acks[p]) = [status |-> "error"]

\* The error acknowledgment for a message without vehicle_controls was sent
\* and the handler awaits the next message, after a record was stored.
C3_Witness ==
    \E p \in Producers :
        /\ LacksControls(p)
        /\ car_pc[p] = "await"
        /\ Last(acks[p]) = [status |-> "error"]
        /\ p \in Range(car_connections)
        /\ latest_car_data_store # None

\* The positions of the deliveries of a given kind in what consumer c got.
Pushes(c, via) == { k \in 1..Len(delivered[c]) : delivered[c][k].via = via }

\* C4  A consumer gets at most one initial push, the record that was in the
\* store when it was registered, and exactly one once that send has returned
\* without error; every record a pass delivers to it was stored after it was
\* registered; so no record reaches it twice.
C4_InitialPushOnce ==
    \A c \in Consumers :
        /\ Cardinality(Pushes(c, "initial")) <= 1
        /\ \A k \in Pushes(c, "initial") :
              /\ joined_at[c] >= 1
              /\ delivered[c][k].rec = accepted[joined_at[c]]
        /\ \A k \in Pushes(c, "broadcast") :
              \E n \in (joined_at[c] + 1)..Len(accepted) :
                  delivered[c][k].rec = accepted[n]
        /\ \A i, j \in 1..Len(delivered[c]) :
              i # j => delivered[c][i].rec # delivered[c][j].rec
        /\ (ui_pc[c] = "reading" /\ joined_at[c] >= 1 /\ ~send_failed[c])
               => Cardinality(Pushes(c, "initial")) = 1
        /\ ui_pc[c] = "initpush" =>
               /\ Pushes(c, "initial") = {}
               /\ joined_at[c] >= 1
               /\ ui_initial[c] = accepted[joined_at[c]]

\* A consumer got the stored record as its initial push and then the next
\* accepted record from a pass.
C4_Witness ==
    \E c \in Consumers :
        /\ Len(delivered[c]) = 2
        /\ delivered[c][1] = [rec |-> accepted[1], via |-> "initial"]
        /\ delivered[c][2] = [rec |-> accepted[2], via |-> "broadcast"]

\* C5  A consumer registered while the store was empty gets no initial push,
\* and it is in the consumer registry for as long as its handler has not
\* ended and no pass has removed it after a send to it raised.
C5_EmptyStoreAttach ==
    \A c \in Consumers :
        (Attached(c) /\ joined_at[c] = 0) =>
            /\ ui_pc[c] = "reading"
            /\ ui_initial[c] = None
            /\ Pushes(c, "initial") = {}
            /\ c \in Range(ui_connections)
                   \/ (removed_by[c] \in Producers /\ send_failed[c])

\* A consumer registered while the store was empty is still registered after a
\* pass delivered a record to it.
C5_Witness ==
    \E c \in Consumers :
        /\ Attached(c) /\ joined_at[c] = 0
        /\ c \in Range(ui_connections)
        /\ Len(delivered[c]) = 1
        /\ delivered[c][1].via = "broadcast"

\* The fields of a stored CarData.
CarDataFields ==
    {"producer", "seq", "timestamp_car_sent_utc", "timestamp_server_received_utc"}

\* C6  The store is empty exactly as long as no record was accepted; from
\* then on it holds one whole record, the one accepted last.
C6_LastWriteWins ==
    /\ latest_car_data_store = None <=> accepted = <<>>
    /\ accepted # <<>> =>
          /\ latest_car_data_store = Last(accepted)
          /\ DOMAIN latest_car_data_store = CarDataFields
          /\ latest_car_data_store.timestamp_server_received_utc.iso

\* Two producers have each stored a record; the store holds the second one.
C6_Witness ==
    /\ Len(accepted) = 2
    /\ accepted[1].producer # accepted[2].producer
    /\ latest_car_data_store = accepted[2]
    /\ latest_car_data_store # accepted[1]

\* C7  disconnect raises for no handle, leaves a registry without the handle
\* as it is, and a second disconnect of the same handle changes nothing: on
\* both registries, in every reachable state.
C7_DisconnectIdempotent ==
    \A reg \in {car_connections, ui_connections} :
        \A w \in Producers \cup Consumers :
            LET once == disconnect(reg, w)
                twice == disconnect(once.conns, w)
            IN /\ ~once.raised /\ ~twice.raised
               /\ w \notin Range(reg) => once.conns = reg
               /\ w \notin Range(once.conns)
               /\ twice.conns = once.conns

\* A pass removed a consumer, and then the consumer's own handler ran its
\* cleanup.
C7_Witness ==
    \E c \in Consumers :
        /\ removed_by[c] \in Producers
        /\ ui_pc[c] = "done"
        /\ c \notin Range(ui_connections)

\* C8  The cleanup of a producer handler has run exactly once when the
\* handler has ended, whichever way it left its loop, and not before; after
\* it the connection is not in the producer registry.
C8_ProducerCleanup ==
    \A p \in Producers :
        /\ car_pc[p] = "done" =>
              /\ cleanups[p] = 1
              /\ p \notin Range(car_connections)
              /\ exit_via[p] \in {"WebSocketDisconnect", "ack_disconnect",
                                  "ack_error", "receive_error"}
        /\ car_pc[p] # "done" => cleanups[p] = 0
        /\ car_pc[p] \in {"await", "broadcast", "ack", "ack_err", "closing"}
              => p \in Range(car_connections)

\* One producer handler has ended on a failing acknowledgment and another on
\* the closure of its client.
C8_Witness ==
    \E p, q \in Producers :
        /\ car_pc[p] = "done" /\ exit_via[p] = "ack_disconnect"
        /\ car_pc[q] = "done" /\ exit_via[q] = "WebSocketDisconnect"

\* The records of producer p stored since consumer c was registered, and the
\* records of p that passes delivered to c, each in order.
Due(c, p) ==
    LET FromP(r) == r.producer = p
    IN SelectSeq(SubSeq(accepted, joined_at[c] + 1, Len(accepted)), FromP)
Got(c, p) ==
    LET FromP(e) == e.via = "broadcast" /\ e.rec.producer = p
        sel == SelectSeq(delivered[c], FromP)
    IN [k \in 1..Len(sel) |-> sel[k].rec]

\* C9  For a registered consumer to which no send has raised, the records of
\* one producer that passes delivered are the records of that producer stored
\* since the consumer was registered, in the order the producer's messages
\* were received: none skipped, none reordered; the last one alone may be
\* missing, while its pass has not reached the consumer yet.
C9_PerProducerOrder ==
    \A c \in Consumers :
        (Attached(c) /\ c \in Range(ui_connections) /\ ~send_failed[c]) =>
            \A p \in Producers :
                LET due == Due(c, p)
                    got == Got(c, p)
                IN /\ Len(got) <= Len(due)
                   /\ \A k \in 1..Len(got) : got[k] = due[k]
                   /\ \A k \in 1..(Len(due) - 1) : due[k].seq < due[k+1].seq
                   /\ Len(got) < Len(due) =>
                         /\ Len(due) = Len(got) + 1
                         /\ car_pc[p] = "broadcast"
                         /\ Last(due) = car_data_received[p]
                         /\ \E j \in bc_idx[p]..Len(bc_copy[p]) : bc_copy[p][j] = c

\* A consumer got two records of one producer from two passes.
C9_Witness ==
    \E c \in Consumers : \E p \in Producers :
        /\ Attached(c) /\ c \in Range(ui_connections) /\ ~send_failed[c]
        /\ Len(Got(c, p)) = 2
        /\ Got(c, p)[1].seq = 1 /\ Got(c, p)[2].seq = 2

\* C10  (the claim as stated)  A stored record whose send timestamp parses
\* carries data_transit_time_to_server_ms, the server's receive time minus
\* the producer's send time in milliseconds (250 for a record sent at 0 ms and
\* received at 250 ms).
C10_TransitTime ==
    LET rec == latest_car_data_store IN
    (rec # None /\ rec.timestamp_car_sent_utc.iso) =>
        /\ "data_transit_time_to_server_ms" \in DOMAIN rec
        /\ rec.data_transit_time_to_server_ms =
               rec.timestamp_server_received_utc.ms - rec.timestamp_car_sent_utc.ms

-----------------------------------------------------------------------------
(* Timestamps of incoming messages *)

\* The message the handler of p last received has all required fields and a
\* send timestamp of the given form.
CurrentTs(p, ts) ==
    /\ data_json[p] # NoMsg
    /\ data_json[p].vehicle_controls
    /\ data_json[p].timestamp_car_sent_utc = ts

\* The record the handler of p built from its current message.
CurrentRecord(p) == car_data_received[p]

\* C11  A message whose send timestamp is a string that is not an instant is
\* not refused: a record with that string, and without a transit time, is
\* built from it and stored, its pass runs over the registry, and the handler
\* goes on to the "received" acknowledgment; the handler sends an error
\* acknowledgment or closes only after an I/O call has raised, and once it is
\* back at its receive without any I/O error the producer has "received" as
\* its last acknowledgment.
C11_UnparseableTimestamp ==
    \A p \in Producers :
        CurrentTs(p, TsString(Garbage)) =>
            LET rec == CurrentRecord(p) IN
            /\ car_pc[p] \in {"broadcast", "ack", "ack_err", "await", "closing"}
            /\ FromCurrentMessage(p, rec)
            /\ rec.timestamp_car_sent_utc = Garbage
            /\ "data_transit_time_to_server_ms" \notin DOMAIN rec
            /\ \E n \in 1..Len(accepted) : accepted[n] = rec
            /\ car_pc[p] \in {"ack_err", "closing"} => faults >= 1
            /\ car_pc[p] = "ack" =>
                   \A j \in 1..Len(bc_log[p]) :
                       (bc_log[p][j].outcome = "ok" /\ Attached(bc_log[p][j].conn))
                           => GotFromPass(bc_log[p][j].conn, p)
            /\ (car_pc[p] = "await" /\ faults = 0) =>
                   /\ p \in Range(car_connections)
                   /\ Len(acks[p]) = received[p]
                   /\ Last(acks[p]) =
                          [status |-> "received",
                           message_processed_at |-> rec.timestamp_server_received_utc]

\* A record with an unparseable send timestamp is in the store, a consumer got
\* it from the pass and the producer got "received".
C11_Witness ==
    \E p \in Producers : \E c \in Consumers :
        /\ CurrentTs(p, TsString(Garbage))
        /\ car_pc[p] = "await"
        /\ Last(acks[p]).status = "received"
        /\ latest_car_data_store = CurrentRecord(p)
        /\ latest_car_data_store.timestamp_car_sent_utc = Garbage
        /\ Len(delivered[c]) >= 1
        /\ Last(delivered[c]) = [rec |-> CurrentRecord(p), via |-> "broadcast"]

\* C12  (the claim as stated)  A message without a send timestamp fails
\* validation: the handler goes to the error acknowledgment, and no record
\* built from the message is stored.
C12_TimestampRequired ==
    \A p \in Producers :
        CurrentTs(p, TsOmitted) =>
            /\ car_pc[p] \in {"ack_err", "await", "closing"}
            /\ ~FromCurrentMessage(p, latest_car_data_store)
            /\ \A n \in 1..Len(accepted) : ~FromCurrentMessage(p, accepted[n])

-----------------------------------------------------------------------------
(* Progress of a pass *)

\* The pass of p has attempted its send to consumer c.
SentTo(p, c) == \E j \in 1..Len(bc_log[p]) : bc_log[p][j].conn = c

\* C13  (the claim as stated)  While the send to one consumer never
\* completes, a pass in progress still gets to every other consumer of its
\* list, and the handler gets past the pass and the send of its
\* acknowledgment.
C13_SlowConsumerIsolation ==
    \A p \in Producers :
        /\ \A c \in Consumers \ {Unresponsive} :
              (car_pc[p] = "broadcast" /\ c \in Range(bc_copy[p])) ~> SentTo(p, c)
        /\ (car_pc[p] = "broadcast") ~> (car_pc[p] \notin {"broadcast", "ack"})

-----------------------------------------------------------------------------
(* Failures after validation *)

\* The message the handler of p last received passed validation.
CurrentValid(p) == data_json[p] # NoMsg /\ Validate(data_json[p])

\* C14  (the claim as stated)  For a message that passed validation the
\* handler never sends an error acknowledgment: when a later step of the
\* ingestion raises, it closes with 1011 and ends; so it is never at the send
\* of an error acknowledgment, and whenever it is back at its receive the
\* producer has "received" as its last acknowledgment.
C14_InternalFailureCloses ==
    \A p \in Producers :
        CurrentValid(p) =>
            /\ car_pc[p] # "ack_err"
            /\ car_pc[p] = "await" =>
                   /\ Len(acks[p]) = received[p]
                   /\ Last(acks[p]).status = "received"

-----------------------------------------------------------------------------
(* Order of the ingestion steps *)

\* The step appends a "received" acknowledgment to what producer p got.
AckReceivedStep(p) ==
    /\ Len(acks'[p]) = Len(acks[p]) + 1
    /\ Last(acks'[p]).status = "received"

\* The log of the pass of p has one entry for each handle of the pass's list.
PassComplete(p) ==
    /\ Len(bc_log[p]) = Len(bc_copy[p])
    /\ \A j \in 1..Len(bc_copy[p]) : bc_log[p][j].conn = bc_copy[p][j]

\* C15  Store, then pass, then acknowledgment.  The step that accepts a
\* message installs its record in the store and starts the pass over the
\* registry as it is, without any acknowledgment; no acknowledgment reaches
\* the producer while its pass is in progress; and the step that hands
\* "received" to the producer is taken after the pass has returned, with a
\* send attempted to every handle of the pass's list and the record among
\* those installed in the store, and it names the record's receive time.
C15_StepOrder ==
    [][ \A p \in Producers :
          /\ (car_pc[p] = "await" /\ car_pc'[p] \in {"broadcast", "ack"}) =>
                 /\ latest_car_data_store' = car_data_received'[p]
                 /\ Last(accepted') = car_data_received'[p]
                 /\ bc_copy'[p] = ui_connections
                 /\ bc_log'[p] = <<>>
                 /\ acks'[p] = acks[p]
          /\ car_pc[p] = "broadcast" => acks'[p] = acks[p]
          /\ AckReceivedStep(p) =>
                 /\ car_pc[p] = "ack"
                 /\ PassComplete(p)
                 /\ \E n \in 1..Len(accepted) : accepted[n] = car_data_received[p]
                 /\ Last(acks'[p]).message_processed_at =
                        car_data_received[p].timestamp_server_received_utc
      ]_vars

\* A producer got "received" for its second record, after both consumers got
\* that record from the pass.
C15_Witness ==
    \E p \in Producers :
        /\ car_pc[p] = "await"
        /\ Len(acks[p]) = 2
        /\ acks[p][2].status = "received"
        /\ latest_car_data_store = car_data_received[p]
        /\ \A c \in Consumers :
               /\ delivered[c] # <<>>
               /\ Last(delivered[c]) = [rec |-> car_data_received[p], via |-> "broadcast"]

-----------------------------------------------------------------------------
(* The list a pass iterates *)

NoDuplicates(l) == \A i, j \in 1..Len(l) : i # j => l[i] # l[j]

\* The step is one send of the pass of p: an entry for the next handle of the
\* pass's list, with some outcome, is added to the log.
OneSendStep(p) ==
    /\ Len(bc_log[p]) < Len(bc_copy[p])
    /\ \E o \in SendOutcomes :
           bc_log'[p] = Append(bc_log[p],
                               [conn |-> bc_copy[p][Len(bc_log[p]) + 1], outcome |-> o])

\* C16  A pass starts with the registry as its list and an empty log; while
\* it is in progress its list does not change, whatever is added to or
\* removed from the registry; each of its steps is one send to the next handle
\* of that list, after a send that returned as after one that raised; and it
\* ends exactly when the last handle of the list has been sent to.  So each
\* handle of the registry at the start is sent to once, and no other handle.
C16_StableIteration ==
    [][ \A p \in Producers :
          /\ (car_pc[p] = "await" /\ car_pc'[p] = "broadcast") =>
                 /\ bc_copy'[p] = ui_connections
                 /\ bc_log'[p] = <<>>
                 /\ bc_conn'[p] = ui_connections[1]
          /\ car_pc[p] = "broadcast" =>
                 /\ NoDuplicates(bc_copy[p])
                 /\ bc_copy'[p] = bc_copy[p]
                 /\ car_pc'[p] \in {"broadcast", "ack"}
                 /\ IF bc_log'[p] = bc_log[p]
                    THEN car_pc'[p] = "broadcast" /\ bc_conn'[p] = bc_conn[p]
                    ELSE /\ OneSendStep(p)
                         /\ car_pc'[p] = "ack" <=> Len(bc_log'[p]) = Len(bc_copy[p])
                         /\ car_pc'[p] = "broadcast" =>
                                bc_conn'[p] = bc_copy[p][Len(bc_log'[p]) + 1]
      ]_vars

\* A pass over one consumer has returned after its send raised; a consumer
\* registered during the pass was not sent to by it, and the first consumer
\* was sent to once.
C16_Witness ==
    \E p \in Producers : \E c, d \in Consumers :
        /\ car_pc[p] = "ack"
        /\ bc_copy[p] = << c >>
        /\ Len(bc_log[p]) = 1
        /\ bc_log[p][1].outcome \in SendErrors
        /\ d # c /\ d \in Range(ui_connections)
        /\ joined_at[d] >= 1 /\ accepted[joined_at[d]] = car_data_received[p]
        /\ ~SentTo(p, d)

-----------------------------------------------------------------------------
(* Failure of the initial push *)

\* The initial send to consumer c was attempted and raised: there was a record
\* to push when c was registered, the handler is past the push, and c did not
\* get it.
InitialPushFailed(c) ==
    /\ ui_pc[c] = "reading"
    /\ joined_at[c] >= 1
    /\ Pushes(c, "initial") = {}

\* C17  The step that completes the initial send, with or without an error,
\* takes the handler to its receive loop and changes no registry.  After a
\* failed initial send the consumer is in the registry, unless a pass removed
\* it after a further send error; it leaves the registry only in a step that
\* ends its handler or in the last step of a pass whose send to it raised.
C17_InitialPushFailure ==
    [][ \A c \in Consumers :
          /\ (ui_pc[c] = "initpush" /\ ui_pc'[c] # "initpush") =>
                 /\ ui_pc'[c] = "reading"
                 /\ ui_connections' = ui_connections
          /\ InitialPushFailed(c) =>
                 /\ send_failed[c]
                 /\ c \in Range(ui_connections)
                        \/ (removed_by[c] \in Producers /\ faults >= 2)
                 /\ (c \in Range(ui_connections) /\ c \notin Range(ui_connections')) =>
                        \/ ui_pc'[c] = "done"
                        \/ \E p \in Producers :
                               /\ removed_by'[c] = p
                               /\ car_pc[p] = "broadcast" /\ car_pc'[p] = "ack"
                               /\ \E j \in 1..Len(bc_log'[p]) :
                                      /\ bc_log'[p][j].conn = c
                                      /\ bc_log'[p][j].outcome \in SendErrors
      ]_vars

\* After its initial push failed, a consumer is registered, reading, and has
\* been sent the next record by a pass.
C17_Witness ==
    \E c \in Consumers :
        /\ InitialPushFailed(c)
        /\ c \in Range(ui_connections)
        /\ Len(delivered[c]) = 1
        /\ delivered[c][1] = [rec |-> accepted[2], via |-> "broadcast"]

-----------------------------------------------------------------------------
(* Registries *)

\* The handler of the connection has connected and has not ended.
CarLive(p) == car_pc[p] \in {"await", "broadcast", "ack", "ack_err", "closing"}
UiLive(c) == ui_pc[c] \in {"initpush", "reading"}

\* C18  Each registry holds each handle at most once, producers in the one
\* and consumers in the other, and only handles whose handler has connected
\* and has not ended: the handle of an ended handler is in no registry, also
\* while a pass that copied it is in progress or removes its marked handles.
C18_NoRegistryLeak ==
    /\ NoDuplicates(car_connections)
    /\ NoDuplicates(ui_connections)
    /\ \A p \in Producers : p \in Range(car_connections) <=> CarLive(p)
    /\ \A c \in Consumers : c \in Range(ui_connections) => UiLive(c)
    /\ Range(car_connections) \subseteq Producers
    /\ Range(ui_connections) \subseteq Consumers

\* A pass has returned whose list holds a consumer that ended during the pass:
\* the send to it raised, it was marked, and the registry holds the other
\* consumer only.
C18_Witness ==
    \E p \in Producers : \E c, d \in Consumers :
        /\ car_pc[p] = "ack"
        /\ bc_copy[p] = << c, d >>
        /\ ui_pc[c] = "done"
        /\ c \in Range(disconnected_clients[p])
        /\ ui_connections = << d >>

-----------------------------------------------------------------------------
(* Attach against ingestion *)

\* Record r is on its way to consumer c: as the initial push whose
\* send is awaited, or in a pass that has c among the handles still to send to.
InitialPending(c, r) == ui_pc[c] = "initpush" /\ ui_initial[c] = r
PassPending(c, r) ==
    \E p \in Producers :
        /\ car_pc[p] = "broadcast"
        /\ car_data_received[p] = r
        /\ \E j \in bc_idx[p]..Len(bc_copy[p]) : bc_copy[p][j] = c

\* C19  For a consumer whose handler has not ended and to which no send has
\* raised: the record that was in the store when it was registered, and every
\* record stored since, has reached it or is on its way to it: the former as
\* the initial push, the latter by the pass of its producer.  No record stored
\* after the consumer's read of the store lacks the consumer in its pass.
C19_NoMissedUpdate ==
    \A c \in Consumers :
        (Attached(c) /\ ~send_failed[c]) =>
            /\ c \in Range(ui_connections)
            /\ \A n \in 1..Len(accepted) :
                   /\ n = joined_at[c] =>
                          \/ [rec |-> accepted[n], via |-> "initial"]
                                 \in Range(delivered[c])
                          \/ InitialPending(c, accepted[n])
                   /\ n > joined_at[c] =>
                          \/ [rec |-> accepted[n], via |-> "broadcast"]
                                 \in Range(delivered[c])
                          \/ PassPending(c, accepted[n])

\* A consumer registered while the pass of the stored record was in progress:
\* it is not in that pass's list and has the record from its initial push,
\* while the next record, of the other producer, is on its way to it.
C19_Witness ==
    \E c \in Consumers : \E p, q \in Producers :
        /\ Attached(c) /\ ~send_failed[c]
        /\ car_pc[p] = "broadcast"
        /\ c \notin Range(bc_copy[p])
        /\ delivered[c] = << [rec |-> car_data_received[p], via |-> "initial"] >>
        /\ q # p
        /\ PassPending(c, car_data_received[q])

-----------------------------------------------------------------------------
(* Consumers against the store *)

\* No producer handler is between the receipt of a message and the end of its
\* acknowledgment, and no initial push is being sent.
Quiescent ==
    /\ \A p \in Producers : car_pc[p] \in {"idle", "await", "done"}
    /\ \A c \in Consumers : ui_pc[c] # "initpush"

\* C20  (the claim as stated)  Whenever no ingestion and no pass is in
\* progress, every registered consumer to which no send has raised has, as
\* the record it got last, the record the store holds.
C20_AgreementAtQuiescence ==
    Quiescent =>
        \A c \in Consumers :
            (ui_pc[c] = "reading" /\ c \in Range(ui_connections) /\ ~send_failed[c]
                 /\ latest_car_data_store # None) =>
                /\ delivered[c] # <<>>
                /\ Last(delivered[c]).rec = latest_car_data_store

\* The records consumer c got, in any order.
RecordsOf(c) == { delivered[c][k].rec : k \in 1..Len(delivered[c]) }

\* The records that were due to consumer c: the one in the store when it was
\* registered and those stored since.
DueSince(c) == { accepted[n] : n \in { k \in 1..Len(accepted) : k >= joined_at[c] } }

\* C20  (amended)  Whenever no ingestion and no pass is in progress, every
\* registered consumer to which no send has raised has got the record the
\* store holds, and got each record due to it once and no other; the record
\* of the store need not be the one it got last.
C20_StoreRecordDelivered ==
    Quiescent =>
        \A c \in Consumers :
            (ui_pc[c] = "reading" /\ c \in Range(ui_connections) /\ ~send_failed[c]
                 /\ latest_car_data_store # None) =>
                /\ latest_car_data_store \in RecordsOf(c)
                /\ RecordsOf(c) = DueSince(c)
                /\ Len(delivered[c]) = Cardinality(DueSince(c))

\* Nothing is in progress and a registered consumer got the record of the
\* store first and an older record last.
C20_Witness ==
    /\ Quiescent
    /\ \E c \in Consumers :
           /\ ui_pc[c] = "reading" /\ c \in Range(ui_connections) /\ ~send_failed[c]
           /\ Len(delivered[c]) = 2
           /\ delivered[c][1].rec = latest_car_data_store
           /\ delivered[c][2].rec = accepted[1]
           /\ latest_car_data_store = accepted[2]

====
